---- MODULE Spec2Model ----
(***************************************************************************)
(* Model of voxelbotutils/runner.py: the shard validator, the log level    *)
(* configurator, the two resource pool starters, the schema bootstrapper   *)
(* and the lifecycle orchestrator run_bot.                                 *)
(***************************************************************************)
EXTENDS Integers, Sequences, FiniteSets, TLC

VARIABLES
    pc,          \* position of run_bot (the label of the statement about to run / awaited)
    config,      \* bot.config: the 'database' and 'redis' sub-objects
    schema,      \* ./config/database.pgsql: present flag and text
    trace,       \* calls made to the collaborators, and their completions, in order
    error,       \* the exception that propagated out of run_bot
    dbPool,      \* DatabaseConnection.pool
    rePool,      \* RedisConnection.pool
    conn,        \* the connection scope of bot.database() in create_initial_database
    stmts,       \* create_table_statemenets still to be visited by the for loop
    executed,    \* the statements handed to db(...), in order
    bootstrap,   \* the value create_initial_database returned
    loopClosed,  \* bot.loop has been closed
    args,        \* the argparse namespace given to validate_sharding_information
    shard,       \* outcome of validate_sharding_information
    logargs,     \* the argparse namespace given to set_default_log_levels
    levels,      \* level of the four loggers
    logres       \* outcome of set_default_log_levels

runvars == <<pc, config, schema, trace, error, dbPool, rePool, conn, stmts,
             executed, bootstrap, loopClosed>>
shardvars == <<args, shard>>
logvars == <<logargs, levels, logres>>
vars == <<runvars, shardvars, logvars>>

(***************************************************************************)
(* Bounds                                                                  *)
(***************************************************************************)
MaxLen == 3        \* longest schema text
MaxShard == 2      \* largest shard number tried

(***************************************************************************)
(* Optional values: None is the empty sequence, a value v is <<v>>.        *)
(***************************************************************************)
None == << >>
Some(v) == <<v>>
IsNone(x) == x = << >>
Val(x) == x[1]

(***************************************************************************)
(* bot.config: each sub-object may be missing from the mapping; when it is *)
(* there it carries the enabled flag.                                      *)
(***************************************************************************)
Missing == [present |-> FALSE, enabled |-> FALSE]
Disabled == [present |-> TRUE, enabled |-> FALSE]
Enabled == [present |-> TRUE, enabled |-> TRUE]
Settings == {Missing, Disabled, Enabled}
Configs == [database : Settings, redis : Settings]

(***************************************************************************)
(* ./config/database.pgsql: absent (or unreadable), or a text.             *)
(***************************************************************************)
Chars == {"a", "b", ";", " "}
Whitespace == {" "}
Texts == UNION {[1..n -> Chars] : n \in 0..MaxLen}
Schemas == {[present |-> FALSE, data |-> << >>]} \cup {[present |-> TRUE, data |-> t] : t \in Texts}

\* str.split(';'): the fragments between the delimiters, empty ones included
RECURSIVE SplitFrom(_, _)
SplitFrom(data, cur) ==
    IF data = << >> THEN <<cur>>
    ELSE IF Head(data) = ";" THEN <<cur>> \o SplitFrom(Tail(data), << >>)
    ELSE SplitFrom(Tail(data), Append(cur, Head(data)))
Split(data) == SplitFrom(data, << >>)

\* str.strip(): leading and trailing whitespace removed
RECURSIVE LStrip(_)
LStrip(s) == IF s # << >> /\ Head(s) \in Whitespace THEN LStrip(Tail(s)) ELSE s
RECURSIVE RStrip(_)
RStrip(s) ==
    IF s # << >> /\ s[Len(s)] \in Whitespace THEN RStrip(SubSeq(s, 1, Len(s) - 1)) ELSE s
Strip(s) == RStrip(LStrip(s))

\* faulty variant: `if i`, so a fragment of whitespace only is executed too
IsStatementNonEmpty(i) == i # << >>

\* `if i and i.strip()`
IsStatement(i) == i # << >> /\ Strip(i) # << >>

(***************************************************************************)
(* Exceptions                                                              *)
(***************************************************************************)
NoError == [type |-> "none", msg |-> ""]
Exc(t, m) == [type |-> t, msg |-> m]

\* what an awaited collaborator call can do
AwaitOutcomes == {"ok", "Exception", "KeyboardInterrupt"}
CreatePoolOutcomes == {"ok", "KeyError", "ConnectionRefusedError", "Exception", "KeyboardInterrupt"}

\* the except clauses of start_database_pool
DatabasePoolError(outcome) ==
    CASE outcome = "KeyError" ->
           Exc("Exception", "KeyError creating database pool - is there a 'database' object in the config?")
      [] outcome = "ConnectionRefusedError" ->
           Exc("Exception", "ConnectionRefusedError creating database pool - did you set the right information in the config, and is the database running?")
      [] outcome = "Exception" -> Exc("Exception", "Error creating database pool")
      [] OTHER -> Exc(outcome, "")

\* the except clauses of start_redis_pool
RedisPoolError(outcome) ==
    CASE outcome = "KeyError" ->
           Exc("KeyError", "KeyError creating redis pool - is there a 'redis' object in the config?")
      [] outcome = "ConnectionRefusedError" ->
           Exc("ConnectionRefusedError", "ConnectionRefusedError creating redis pool - did you set the right information in the config, and is the database running?")
      [] outcome = "Exception" -> Exc("Exception", "Error creating redis pool")
      [] OTHER -> Exc(outcome, "")

(***************************************************************************)
(* The log of collaborator calls                                           *)
(***************************************************************************)
Call(op) == <<op, "call">>
Return(op) == <<op, "return">>
Raised(op) == <<op, "raise">>
Interrupted(op) == <<op, "KeyboardInterrupt">>
\* how a collaborator call that did not complete ended
Ended(op, outcome) == IF outcome = "KeyboardInterrupt" THEN Interrupted(op) ELSE Raised(op)

\* an exception leaves run_bot
Propagate(e, events) ==
    /\ pc' = "raised"
    /\ error' = e
    /\ trace' = trace \o events

\* run_bot goes on with the statement at label next
Goto(next, events) ==
    /\ pc' = next
    /\ trace' = trace \o events
    /\ UNCHANGED error

(***************************************************************************)
(* run_bot                                                                 *)
(***************************************************************************)
\* faulty variant: run_bot goes from the database pool straight to the extensions
AfterDatabasePoolToExtensions == "load_all_extensions"

\* the statement run_bot goes on with once start_database_pool has returned
AfterDatabasePool == "start_redis_pool"

\* the statement run_bot goes on with once start_redis_pool has returned
AfterRedisPool == "load_all_extensions"

RunInit ==
    /\ pc = "start_database_pool"
    /\ config \in Configs
    /\ schema \in Schemas
    /\ trace = << >>
    /\ error = NoError
    /\ dbPool = "none"
    /\ rePool = "none"
    /\ conn = "none"
    /\ stmts = << >>
    /\ executed = << >>
    /\ bootstrap = "none"
    /\ loopClosed = FALSE

\* faulty variant: start_database_pool creates the pool whatever the enabled flag says
StartDatabasePoolIgnoringFlag ==
    /\ pc = "start_database_pool"
    /\ IF ~config.database.present
         THEN Propagate(Exc("KeyError", "'database'"),
                        <<Call("start_database_pool"), Raised("start_database_pool")>>)
         ELSE Goto("db_create_pool",
                   <<Call("start_database_pool"), Call("DatabaseConnection.create_pool")>>)
    /\ UNCHANGED <<config, schema, dbPool, rePool, conn, stmts, executed, bootstrap, loopClosed>>
    /\ UNCHANGED <<shardvars, logvars>>

\* run_bot calls start_database_pool, which reads the enabled flag and, when it
\* is set, calls DatabaseConnection.create_pool
StartDatabasePool ==
    /\ pc = "start_database_pool"
    /\ IF ~config.database.present
         THEN Propagate(Exc("KeyError", "'database'"),
                        <<Call("start_database_pool"), Raised("start_database_pool")>>)
         ELSE IF config.database.enabled
         THEN Goto("db_create_pool",
                   <<Call("start_database_pool"), Call("DatabaseConnection.create_pool")>>)
         ELSE Goto(AfterDatabasePool,
                   <<Call("start_database_pool"), Return("start_database_pool")>>)
    /\ UNCHANGED <<config, schema, dbPool, rePool, conn, stmts, executed, bootstrap, loopClosed>>
    /\ UNCHANGED <<shardvars, logvars>>

\* DatabaseConnection.create_pool completes or fails
DatabaseCreatePool ==
    /\ pc = "db_create_pool"
    /\ \E outcome \in CreatePoolOutcomes :
         IF outcome = "ok"
           THEN /\ dbPool' = "open"
                /\ Goto("create_initial_database", <<Return("DatabaseConnection.create_pool")>>)
           ELSE /\ Propagate(DatabasePoolError(outcome),
                             <<Ended("DatabaseConnection.create_pool", outcome), Raised("start_database_pool")>>)
                /\ UNCHANGED dbPool
    /\ UNCHANGED <<config, schema, rePool, conn, stmts, executed, bootstrap, loopClosed>>
    /\ UNCHANGED <<shardvars, logvars>>

\* faulty variant: a schema text without any statement is treated like a missing file
CreateInitialDatabaseSkippingBlank ==
    /\ pc = "create_initial_database"
    /\ IF ~schema.present \/ Strip(schema.data) = << >>
         THEN /\ bootstrap' = "False"
              /\ Goto(AfterDatabasePool,
                      <<Call("create_initial_database"), Return("create_initial_database"),
                        Return("start_database_pool")>>)
              /\ UNCHANGED <<conn, stmts>>
         ELSE \E outcome \in AwaitOutcomes :
                IF outcome = "ok"
                  THEN /\ stmts' = Split(schema.data)
                       /\ conn' = "acquired"
                       /\ Goto("db_execute",
                               <<Call("create_initial_database"), Call("bot.database"),
                                 Return("bot.database")>>)
                       /\ UNCHANGED bootstrap
                  ELSE /\ Propagate(Exc(outcome, ""),
                                    <<Call("create_initial_database"), Call("bot.database"),
                                      Ended("bot.database", outcome), Raised("create_initial_database"),
                                      Raised("start_database_pool")>>)
                       /\ UNCHANGED <<conn, stmts, bootstrap>>
    /\ UNCHANGED <<config, schema, dbPool, rePool, executed, loopClosed>>
    /\ UNCHANGED <<shardvars, logvars>>

\* create_initial_database reads the schema file, splits it and enters the
\* connection scope of bot.database()
CreateInitialDatabase ==
    /\ pc = "create_initial_database"
    /\ IF ~schema.present
         THEN /\ bootstrap' = "False"
              /\ Goto(AfterDatabasePool,
                      <<Call("create_initial_database"), Return("create_initial_database"),
                        Return("start_database_pool")>>)
              /\ UNCHANGED <<conn, stmts>>
         ELSE \E outcome \in AwaitOutcomes :
                IF outcome = "ok"
                  THEN /\ stmts' = Split(schema.data)
                       /\ conn' = "acquired"
                       /\ Goto("db_execute",
                               <<Call("create_initial_database"), Call("bot.database"),
                                 Return("bot.database")>>)
                       /\ UNCHANGED bootstrap
                  ELSE /\ Propagate(Exc(outcome, ""),
                                    <<Call("create_initial_database"), Call("bot.database"),
                                      Ended("bot.database", outcome), Raised("create_initial_database"),
                                      Raised("start_database_pool")>>)
                       /\ UNCHANGED <<conn, stmts, bootstrap>>
    /\ UNCHANGED <<config, schema, dbPool, rePool, executed, loopClosed>>
    /\ UNCHANGED <<shardvars, logvars>>

\* faulty variant: a statement that fails is passed over and the loop goes on
ExecuteStatementContinuing ==
    /\ pc = "db_execute"
    /\ IF stmts = << >>
         THEN /\ conn' = "released"
              /\ bootstrap' = "True"
              /\ Goto(AfterDatabasePool,
                      <<Return("create_initial_database"), Return("start_database_pool")>>)
              /\ UNCHANGED <<stmts, executed>>
         ELSE IF ~IsStatement(Head(stmts))
         THEN /\ stmts' = Tail(stmts)
              /\ UNCHANGED <<pc, trace, error, conn, executed, bootstrap>>
         ELSE /\ executed' = Append(executed, Strip(Head(stmts)))
              /\ stmts' = Tail(stmts)
              /\ \E outcome \in AwaitOutcomes :
                   IF outcome = "ok"
                     THEN Goto("db_execute", <<Call("db"), Return("db")>>)
                     ELSE Goto("db_execute", <<Call("db"), Ended("db", outcome)>>)
              /\ UNCHANGED <<conn, bootstrap>>
    /\ UNCHANGED <<config, schema, dbPool, rePool, loopClosed>>
    /\ UNCHANGED <<shardvars, logvars>>

\* one iteration of the for loop over the fragments; after the last one the
\* connection scope is left and True is returned
ExecuteStatement ==
    /\ pc = "db_execute"
    /\ IF stmts = << >>
         THEN /\ conn' = "released"
              /\ bootstrap' = "True"
              /\ Goto(AfterDatabasePool,
                      <<Return("create_initial_database"), Return("start_database_pool")>>)
              /\ UNCHANGED <<stmts, executed>>
         ELSE IF ~IsStatement(Head(stmts))
         THEN /\ stmts' = Tail(stmts)
              /\ UNCHANGED <<pc, trace, error, conn, executed, bootstrap>>
         ELSE /\ executed' = Append(executed, Strip(Head(stmts)))
              /\ \E outcome \in AwaitOutcomes :
                   IF outcome = "ok"
                     THEN /\ stmts' = Tail(stmts)
                          /\ Goto("db_execute", <<Call("db"), Return("db")>>)
                          /\ UNCHANGED <<conn, bootstrap>>
                     ELSE /\ conn' = "released"
                          /\ Propagate(Exc(outcome, ""),
                                       <<Call("db"), Ended("db", outcome), Raised("create_initial_database"),
                                         Raised("start_database_pool")>>)
                          /\ UNCHANGED <<stmts, bootstrap>>
    /\ UNCHANGED <<config, schema, dbPool, rePool, loopClosed>>
    /\ UNCHANGED <<shardvars, logvars>>

\* faulty variant: start_redis_pool creates the pool whatever the enabled flag says
StartRedisPoolIgnoringFlag ==
    /\ pc = "start_redis_pool"
    /\ IF ~config.redis.present
         THEN Propagate(Exc("KeyError", "'redis'"),
                        <<Call("start_redis_pool"), Raised("start_redis_pool")>>)
         ELSE Goto("re_create_pool",
                   <<Call("start_redis_pool"), Call("RedisConnection.create_pool")>>)
    /\ UNCHANGED <<config, schema, dbPool, rePool, conn, stmts, executed, bootstrap, loopClosed>>
    /\ UNCHANGED <<shardvars, logvars>>

\* run_bot calls start_redis_pool, which reads the enabled flag and, when it is
\* set, calls RedisConnection.create_pool
StartRedisPool ==
    /\ pc = "start_redis_pool"
    /\ IF ~config.redis.present
         THEN Propagate(Exc("KeyError", "'redis'"),
                        <<Call("start_redis_pool"), Raised("start_redis_pool")>>)
         ELSE IF config.redis.enabled
         THEN Goto("re_create_pool",
                   <<Call("start_redis_pool"), Call("RedisConnection.create_pool")>>)
         ELSE Goto(AfterRedisPool,
                   <<Call("start_redis_pool"), Return("start_redis_pool")>>)
    /\ UNCHANGED <<config, schema, dbPool, rePool, conn, stmts, executed, bootstrap, loopClosed>>
    /\ UNCHANGED <<shardvars, logvars>>

\* faulty variant: a failure of RedisConnection.create_pool closes the database pool
RedisCreatePoolCleaningUp ==
    /\ pc = "re_create_pool"
    /\ \E outcome \in CreatePoolOutcomes :
         IF outcome = "ok"
           THEN /\ rePool' = "open"
                /\ Goto(AfterRedisPool,
                        <<Return("RedisConnection.create_pool"), Return("start_redis_pool")>>)
                /\ UNCHANGED dbPool
           ELSE /\ Propagate(RedisPoolError(outcome),
                             <<Ended("RedisConnection.create_pool", outcome), Raised("start_redis_pool")>>
                             \o (IF dbPool = "open"
                                   THEN <<Call("DatabaseConnection.pool.close"),
                                          Return("DatabaseConnection.pool.close")>>
                                   ELSE << >>))
                /\ dbPool' = IF dbPool = "open" THEN "closed" ELSE dbPool
                /\ UNCHANGED rePool
    /\ UNCHANGED <<config, schema, conn, stmts, executed, bootstrap, loopClosed>>
    /\ UNCHANGED <<shardvars, logvars>>

\* faulty variant: a failure of RedisConnection.create_pool is swallowed
RedisCreatePoolSwallowing ==
    /\ pc = "re_create_pool"
    /\ \E outcome \in CreatePoolOutcomes :
         IF outcome = "ok"
           THEN /\ rePool' = "open"
                /\ Goto(AfterRedisPool,
                        <<Return("RedisConnection.create_pool"), Return("start_redis_pool")>>)
           ELSE /\ Goto(AfterRedisPool,
                        <<Ended("RedisConnection.create_pool", outcome), Return("start_redis_pool")>>)
                /\ UNCHANGED rePool
    /\ UNCHANGED <<config, schema, dbPool, conn, stmts, executed, bootstrap, loopClosed>>
    /\ UNCHANGED <<shardvars, logvars>>

\* RedisConnection.create_pool completes or fails
RedisCreatePool ==
    /\ pc = "re_create_pool"
    /\ \E outcome \in CreatePoolOutcomes :
         IF outcome = "ok"
           THEN /\ rePool' = "open"
                /\ Goto(AfterRedisPool,
                        <<Return("RedisConnection.create_pool"), Return("start_redis_pool")>>)
           ELSE /\ Propagate(RedisPoolError(outcome),
                             <<Ended("RedisConnection.create_pool", outcome), Raised("start_redis_pool")>>)
                /\ UNCHANGED rePool
    /\ UNCHANGED <<config, schema, dbPool, conn, stmts, executed, bootstrap, loopClosed>>
    /\ UNCHANGED <<shardvars, logvars>>

\* bot.load_all_extensions()
LoadAllExtensions ==
    /\ pc = "load_all_extensions"
    /\ \E outcome \in AwaitOutcomes :
         IF outcome = "ok"
           THEN Goto("bot_start",
                     <<Call("bot.load_all_extensions"), Return("bot.load_all_extensions")>>)
           ELSE Propagate(Exc(outcome, ""),
                          <<Call("bot.load_all_extensions"), Ended("bot.load_all_extensions", outcome)>>)
    /\ UNCHANGED <<config, schema, dbPool, rePool, conn, stmts, executed, bootstrap, loopClosed>>
    /\ UNCHANGED <<shardvars, logvars>>

\* loop.run_until_complete(bot.start()) is entered
BotStart ==
    /\ pc = "bot_start"
    /\ Goto("running", <<Call("bot.start")>>)
    /\ UNCHANGED <<config, schema, dbPool, rePool, conn, stmts, executed, bootstrap, loopClosed>>
    /\ UNCHANGED <<shardvars, logvars>>

\* faulty variant: `except Exception` too, so any failure of bot.start logs out
BotStartEndsCatchingAll ==
    /\ pc = "running"
    /\ \E outcome \in AwaitOutcomes :
         CASE outcome = "ok" -> Goto("close_database", <<Return("bot.start")>>)
           [] OTHER -> Goto("logout", <<Ended("bot.start", outcome), Call("bot.logout")>>)
    /\ UNCHANGED <<config, schema, dbPool, rePool, conn, stmts, executed, bootstrap, loopClosed>>
    /\ UNCHANGED <<shardvars, logvars>>

\* faulty variant: the except clause goes to the teardown without bot.logout
BotStartEndsWithoutLogout ==
    /\ pc = "running"
    /\ \E outcome \in AwaitOutcomes :
         CASE outcome = "ok" -> Goto("close_database", <<Return("bot.start")>>)
           [] outcome = "KeyboardInterrupt" ->
                Goto("close_database", <<Interrupted("bot.start")>>)
           [] OTHER -> Propagate(Exc(outcome, ""), <<Raised("bot.start")>>)
    /\ UNCHANGED <<config, schema, dbPool, rePool, conn, stmts, executed, bootstrap, loopClosed>>
    /\ UNCHANGED <<shardvars, logvars>>

\* bot.start() returns, is interrupted (the except clause calls bot.logout) or
\* fails with another exception
BotStartEnds ==
    /\ pc = "running"
    /\ \E outcome \in AwaitOutcomes :
         CASE outcome = "ok" -> Goto("close_database", <<Return("bot.start")>>)
           [] outcome = "KeyboardInterrupt" ->
                Goto("logout", <<Interrupted("bot.start"), Call("bot.logout")>>)
           [] OTHER -> Propagate(Exc(outcome, ""), <<Raised("bot.start")>>)
    /\ UNCHANGED <<config, schema, dbPool, rePool, conn, stmts, executed, bootstrap, loopClosed>>
    /\ UNCHANGED <<shardvars, logvars>>

\* bot.logout() completes or fails
BotLogoutEnds ==
    /\ pc = "logout"
    /\ \E outcome \in AwaitOutcomes :
         IF outcome = "ok"
           THEN Goto("close_database", <<Return("bot.logout")>>)
           ELSE Propagate(Exc(outcome, ""), <<Ended("bot.logout", outcome)>>)
    /\ UNCHANGED <<config, schema, dbPool, rePool, conn, stmts, executed, bootstrap, loopClosed>>
    /\ UNCHANGED <<shardvars, logvars>>

\* faulty variant: the database close is decided by the redis flag
CloseDatabasePoolByRedisFlag ==
    /\ pc = "close_database"
    /\ IF ~config.redis.enabled
         THEN Goto("close_redis", << >>)
         ELSE IF dbPool = "none"
         THEN Propagate(Exc("AttributeError", "'NoneType' object has no attribute 'close'"), << >>)
         ELSE Goto("db_pool_close", <<Call("DatabaseConnection.pool.close")>>)
    /\ UNCHANGED <<config, schema, dbPool, rePool, conn, stmts, executed, bootstrap, loopClosed>>
    /\ UNCHANGED <<shardvars, logvars>>

\* `if bot.config['database']['enabled']`: DatabaseConnection.pool.close() is
\* called; the attribute lookup fails on a pool that was never set
CloseDatabasePool ==
    /\ pc = "close_database"
    /\ IF ~config.database.enabled
         THEN Goto("close_redis", << >>)
         ELSE IF dbPool = "none"
         THEN Propagate(Exc("AttributeError", "'NoneType' object has no attribute 'close'"), << >>)
         ELSE Goto("db_pool_close", <<Call("DatabaseConnection.pool.close")>>)
    /\ UNCHANGED <<config, schema, dbPool, rePool, conn, stmts, executed, bootstrap, loopClosed>>
    /\ UNCHANGED <<shardvars, logvars>>

\* DatabaseConnection.pool.close() completes or fails
DatabasePoolCloseEnds ==
    /\ pc = "db_pool_close"
    /\ \E outcome \in AwaitOutcomes :
         IF outcome = "ok"
           THEN /\ dbPool' = "closed"
                /\ Goto("close_redis", <<Return("DatabaseConnection.pool.close")>>)
           ELSE /\ Propagate(Exc(outcome, ""), <<Ended("DatabaseConnection.pool.close", outcome)>>)
                /\ UNCHANGED dbPool
    /\ UNCHANGED <<config, schema, rePool, conn, stmts, executed, bootstrap, loopClosed>>
    /\ UNCHANGED <<shardvars, logvars>>

\* faulty variant: the redis branch closes DatabaseConnection.pool once more
CloseRedisPoolClosingDatabase ==
    /\ pc = "close_redis"
    /\ IF ~config.redis.enabled
         THEN /\ Goto("loop_close", << >>)
              /\ UNCHANGED rePool
         ELSE IF dbPool = "none"
         THEN /\ Propagate(Exc("AttributeError", "'NoneType' object has no attribute 'close'"), << >>)
              /\ UNCHANGED rePool
         ELSE /\ Goto("loop_close",
                      <<Call("DatabaseConnection.pool.close"), Return("DatabaseConnection.pool.close")>>)
              /\ UNCHANGED rePool
    /\ UNCHANGED <<config, schema, dbPool, conn, stmts, executed, bootstrap, loopClosed>>
    /\ UNCHANGED <<shardvars, logvars>>

\* `if bot.config['redis']['enabled']`: RedisConnection.pool.close(), a plain call
CloseRedisPool ==
    /\ pc = "close_redis"
    /\ IF ~config.redis.enabled
         THEN /\ Goto("loop_close", << >>)
              /\ UNCHANGED rePool
         ELSE IF rePool = "none"
         THEN /\ Propagate(Exc("AttributeError", "'NoneType' object has no attribute 'close'"), << >>)
              /\ UNCHANGED rePool
         ELSE \E outcome \in {"ok", "Exception"} :
                IF outcome = "ok"
                  THEN /\ rePool' = "closed"
                       /\ Goto("loop_close",
                               <<Call("RedisConnection.pool.close"), Return("RedisConnection.pool.close")>>)
                  ELSE /\ Propagate(Exc(outcome, ""),
                                    <<Call("RedisConnection.pool.close"), Ended("RedisConnection.pool.close", outcome)>>)
                       /\ UNCHANGED rePool
    /\ UNCHANGED <<config, schema, dbPool, conn, stmts, executed, bootstrap, loopClosed>>
    /\ UNCHANGED <<shardvars, logvars>>

\* faulty variant: run_bot returns without closing the loop
LoopCloseForgotten ==
    /\ pc = "loop_close"
    /\ Goto("closed", << >>)
    /\ UNCHANGED <<config, schema, dbPool, rePool, conn, stmts, executed, bootstrap, loopClosed>>
    /\ UNCHANGED <<shardvars, logvars>>

\* loop.close()
LoopClose ==
    /\ pc = "loop_close"
    /\ loopClosed' = TRUE
    /\ Goto("closed", <<Call("loop.close"), Return("loop.close")>>)
    /\ UNCHANGED <<config, schema, dbPool, rePool, conn, stmts, executed, bootstrap>>
    /\ UNCHANGED <<shardvars, logvars>>

RunNext ==
    \/ StartDatabasePool
    \/ DatabaseCreatePool
    \/ CreateInitialDatabase
    \/ ExecuteStatement
    \/ StartRedisPool
    \/ RedisCreatePool
    \/ LoadAllExtensions
    \/ BotStart
    \/ BotStartEnds
    \/ BotLogoutEnds
    \/ CloseDatabasePool
    \/ DatabasePoolCloseEnds
    \/ CloseRedisPool
    \/ LoopClose

(***************************************************************************)
(* validate_sharding_information                                           *)
(***************************************************************************)
ShardInts == (0 - 1)..MaxShard
OptInts == {None} \cup {Some(n) : n \in ShardInts}
ShardArgs == [shardcount : OptInts, min : OptInts, max : OptInts]

\* list(range(lo, hi)): lo, lo + 1, ..., hi - 1
Range(lo, hi) == [i \in 1..(hi - lo) |-> lo + i - 1]

\* faulty variant: only the shard count is defaulted, min and max are kept
DefaultShardsCountOnly(a) ==
    IF IsNone(a.shardcount)
      THEN [shardcount |-> Some(1), min |-> a.min, max |-> a.max]
      ELSE a

\* the namespace after lines 112-115
DefaultShards(a) ==
    IF IsNone(a.shardcount)
      THEN [shardcount |-> Some(1), min |-> Some(0), max |-> Some(0)]
      ELSE a

\* faulty variant: the range stops before args.max
ShardIdsExclusive(d) == Range(Val(d.min), Val(d.max))

\* shard_ids = list(range(args.min, args.max + 1))
ShardIds(d) == Range(Val(d.min), Val(d.max) + 1)

\* the whole function: the namespace it leaves, how it ended and what it returned
ValidateShardingInformation(a) ==
    LET d == DefaultShards(a) IN
    IF IsNone(d.min) \/ IsNone(d.max)
      THEN \* range(args.min, args.max + 1) on None
           [args |-> d, status |-> "TypeError", exit |-> None, critical |-> "", shard_ids |-> << >>]
      ELSE LET ids == ShardIds(d) IN
           IF IsNone(d.shardcount) /\ (Val(d.min) # 0 \/ Val(d.max) # 0)
             THEN [args |-> d, status |-> "exit", exit |-> Some(1),
                   critical |-> "You set a min/max shard handler but no shard count",
                   shard_ids |-> << >>]
           ELSE IF ~IsNone(d.shardcount) /\ ~(~IsNone(d.min) /\ ~IsNone(d.max))
             THEN [args |-> d, status |-> "exit", exit |-> Some(1),
                   critical |-> "You set a shardcount but not min/max shards",
                   shard_ids |-> << >>]
           ELSE [args |-> d, status |-> "returned", exit |-> None, critical |-> "",
                 shard_ids |-> ids]

ShardPending(a) ==
    [given |-> a, status |-> "pending", exit |-> None, critical |-> "", shard_ids |-> << >>]

ShardInit ==
    /\ args \in ShardArgs
    /\ shard = ShardPending(args)

ValidateSharding ==
    /\ shard.status = "pending"
    /\ LET r == ValidateShardingInformation(args) IN
         /\ args' = r.args
         /\ shard' = [given |-> shard.given, status |-> r.status, exit |-> r.exit,
                      critical |-> r.critical, shard_ids |-> r.shard_ids]
    /\ UNCHANGED <<runvars, logvars>>

(***************************************************************************)
(* set_log_level and set_default_log_levels                                *)
(***************************************************************************)
\* the four loggers: logger, bot.database.logger, bot.redis.logger, 'discord'
Channels == {"bot", "database", "redis", "discord"}

LevelStrings == {"DEBUG", "info", "WARNING", "VERBOSE"}
OptLevels == {None} \cup {Some(l) : l \in LevelStrings}
LogArgs == [loglevel : OptLevels, loglevel_bot : OptLevels, loglevel_database : OptLevels,
            loglevel_redis : OptLevels, loglevel_discord : OptLevels]

\* str.upper()
Upper(l) ==
    CASE l = "info" -> "INFO"
      [] l = "debug" -> "DEBUG"
      [] l = "warning" -> "WARNING"
      [] OTHER -> l

DEBUG == 10
INFO == 20
WARNING == 30
NOTSET == 0

\* getattr(logging, name, None)
LoggingAttr(name) ==
    CASE name = "DEBUG" -> Some(DEBUG)
      [] name = "INFO" -> Some(INFO)
      [] name = "WARNING" -> Some(WARNING)
      [] name = "NOTSET" -> Some(NOTSET)
      [] OTHER -> None

\* faulty variant: a level name that is not found is taken as NOTSET, no error
SetLogLevelDefaulting(lv, channel, loglevel) ==
    IF IsNone(loglevel) THEN [levels |-> lv, error |-> NoError]
    ELSE LET level == LoggingAttr(Upper(Val(loglevel))) IN
         IF IsNone(level)
           THEN [levels |-> [lv EXCEPT ![channel] = NOTSET], error |-> NoError]
           ELSE [levels |-> [lv EXCEPT ![channel] = Val(level)], error |-> NoError]

\* set_log_level on the loggers lv: the loggers afterwards and the error raised
SetLogLevel(lv, channel, loglevel) ==
    IF IsNone(loglevel) THEN [levels |-> lv, error |-> NoError]
    ELSE LET level == LoggingAttr(Upper(Val(loglevel))) IN
         IF IsNone(level)
           THEN [levels |-> lv, error |-> Exc("ValueError", Upper(Val(loglevel)))]
           ELSE [levels |-> [lv EXCEPT ![channel] = Val(level)], error |-> NoError]

\* faulty variant: the per-channel levels are set before the global one
LogCallsOverridesFirst(a) ==
    << <<"bot", a.loglevel_bot>>, <<"database", a.loglevel_database>>,
       <<"redis", a.loglevel_redis>>, <<"discord", a.loglevel_discord>>,
       <<"bot", a.loglevel>>, <<"database", a.loglevel>>, <<"redis", a.loglevel>>,
       <<"discord", a.loglevel>> >>

\* the eight calls of set_default_log_levels, in order
LogCalls(a) ==
    << <<"bot", a.loglevel>>, <<"database", a.loglevel>>, <<"redis", a.loglevel>>,
       <<"discord", a.loglevel>>,
       <<"bot", a.loglevel_bot>>, <<"database", a.loglevel_database>>,
       <<"redis", a.loglevel_redis>>, <<"discord", a.loglevel_discord>> >>

\* the calls are made one after the other until one raises
RECURSIVE ApplyLogCalls(_, _)
ApplyLogCalls(lv, calls) ==
    IF calls = << >> THEN [levels |-> lv, error |-> NoError]
    ELSE LET r == SetLogLevel(lv, Head(calls)[1], Head(calls)[2]) IN
         IF r.error # NoError THEN r ELSE ApplyLogCalls(r.levels, Tail(calls))

LogInit ==
    /\ logargs \in LogArgs
    /\ levels = [c \in Channels |-> NOTSET]
    /\ logres = [status |-> "pending", error |-> NoError]

SetDefaultLogLevels ==
    /\ logres.status = "pending"
    /\ LET r == ApplyLogCalls(levels, LogCalls(logargs)) IN
         /\ levels' = r.levels
         /\ logres' = [status |-> IF r.error = NoError THEN "returned" ELSE "raised",
                       error |-> r.error]
    /\ UNCHANGED logargs
    /\ UNCHANGED <<runvars, shardvars>>

(***************************************************************************)
(* Specifications: run_bot, the shard validator and the log level          *)
(* configurator are separate entry points, each checked on its own.        *)
(***************************************************************************)
ShardIdle ==
    /\ args = [shardcount |-> None, min |-> None, max |-> None]
    /\ shard = ShardPending(args)

LogIdle ==
    /\ logargs = [loglevel |-> Some("info"), loglevel_bot |-> None, loglevel_database |-> None,
                  loglevel_redis |-> None, loglevel_discord |-> None]
    /\ levels = [c \in Channels |-> NOTSET]
    /\ logres = [status |-> "pending", error |-> NoError]

RunIdle ==
    /\ pc = "idle"
    /\ config = [database |-> Disabled, redis |-> Disabled]
    /\ schema = [present |-> FALSE, data |-> << >>]
    /\ trace = << >>
    /\ error = NoError
    /\ dbPool = "none"
    /\ rePool = "none"
    /\ conn = "none"
    /\ stmts = << >>
    /\ executed = << >>
    /\ bootstrap = "none"
    /\ loopClosed = FALSE

Init == RunInit /\ ShardIdle /\ LogIdle
Next == RunNext
Spec == Init /\ [][Next]_vars

\* the teardown is straight-line code on one thread: once run_bot has reached
\* it, each of its statements runs, and an awaited close comes to an end
Teardown == CloseDatabasePool \/ DatabasePoolCloseEnds \/ CloseRedisPool \/ LoopClose
FairSpec == Spec /\ WF_vars(Teardown)

ShardSpecInit == ShardInit /\ RunIdle /\ LogIdle
ShardNext == ValidateSharding
ShardSpec == ShardSpecInit /\ [][ShardNext]_vars

LogSpecInit == LogInit /\ RunIdle /\ ShardIdle
LogNext == SetDefaultLogLevels
LogSpec == LogSpecInit /\ [][LogNext]_vars

(***************************************************************************)
(* Reading the log of calls                                                *)
(***************************************************************************)
Pos(e) == {i \in DOMAIN trace : trace[i] = e}
Count(e) == Cardinality(Pos(e))
Happened(e) == Pos(e) # {}
\* e occurs somewhere before position i
Earlier(e, i) == \E j \in Pos(e) : j < i

DbCreate == "DatabaseConnection.create_pool"
ReCreate == "RedisConnection.create_pool"
DbClose == "DatabaseConnection.pool.close"
ReClose == "RedisConnection.pool.close"

\* the startup step a call belongs to (0: none of them)
Phase(op) ==
    CASE op \in {"start_database_pool", DbCreate, "create_initial_database", "bot.database", "db"} -> 1
      [] op \in {"start_redis_pool", ReCreate} -> 2
      [] op = "bot.load_all_extensions" -> 3
      [] op = "bot.start" -> 4
      [] OTHER -> 0

\* the call that begins a startup step and the event that ends the step before it
StepCall(k) ==
    CASE k = 1 -> Call("start_database_pool")
      [] k = 2 -> Call("start_redis_pool")
      [] k = 3 -> Call("bot.load_all_extensions")
      [] k = 4 -> Call("bot.start")
StepDone(k) ==
    CASE k = 1 -> Return("start_database_pool")
      [] k = 2 -> Return("start_redis_pool")
      [] k = 3 -> Return("bot.load_all_extensions")

(***************************************************************************)
(* C1: the startup steps run in the order database pool start (with the    *)
(* schema bootstrap), redis pool start, load_all_extensions, bot.start: a  *)
(* step begins only after every earlier step has returned, and no call of  *)
(* an earlier step happens after a call of a later one.                    *)
(***************************************************************************)
C1_StartupOrder ==
    /\ \A i \in DOMAIN trace : \A j \in 1..(i - 1) :
         Phase(trace[i][1]) # 0 /\ Phase(trace[j][1]) # 0
            => Phase(trace[j][1]) <= Phase(trace[i][1])
    /\ \A k \in 2..4 : \A i \in Pos(StepCall(k)) :
         \A e \in 1..(k - 1) : Earlier(StepCall(e), i) /\ Earlier(StepDone(e), i)
    /\ \A k \in 1..4 : Count(StepCall(k)) <= 1

C1_Witness ==
    /\ pc = "running"
    /\ dbPool = "open" /\ rePool = "open"
    /\ bootstrap = "True" /\ Len(executed) = 2

(***************************************************************************)
(* C2: when create_pool fails for an enabled resource, the exception       *)
(* leaves run_bot: nothing more runs, create_pool was called once, and     *)
(* neither load_all_extensions nor bot.start is called.                    *)
(***************************************************************************)
CreatePoolFailed(op) == Happened(Raised(op)) \/ Happened(Interrupted(op))

C2_CreateFailureIsFatal ==
    \A op \in {DbCreate, ReCreate} :
        CreatePoolFailed(op) =>
            /\ pc = "raised"
            /\ error # NoError
            /\ ~ENABLED RunNext
            /\ Count(Call(op)) = 1
            /\ ~Happened(Call("bot.load_all_extensions"))
            /\ ~Happened(Call("bot.start"))

C2_Witness ==
    /\ Happened(Raised(ReCreate))
    /\ dbPool = "open"
    /\ error = Exc("ConnectionRefusedError", "ConnectionRefusedError creating redis pool - did you set the right information in the config, and is the database running?")

(***************************************************************************)
(* C3: after a KeyboardInterrupt in bot.start, bot.logout has been called  *)
(* exactly once, and a pool close is called only after bot.logout returned.*)
(***************************************************************************)
C3_LogoutBeforeClose ==
    Happened(Interrupted("bot.start")) =>
        /\ Count(Call("bot.logout")) = 1
        /\ \A op \in {DbClose, ReClose} : \A i \in Pos(Call(op)) :
             Earlier(Return("bot.logout"), i)

C3_Witness ==
    /\ Happened(Interrupted("bot.start"))
    /\ Happened(Call(DbClose))
    /\ Happened(Call(ReClose))

(***************************************************************************)
(* C4: in the teardown the database pool close has returned before the     *)
(* redis pool close is called, and loop.close is called only after the     *)
(* close of every enabled resource has returned.                           *)
(***************************************************************************)
C4_TeardownOrder ==
    /\ \A i \in Pos(Call(ReClose)) :
         /\ config.database.enabled => Earlier(Return(DbClose), i)
         /\ \A j \in DOMAIN trace : trace[j][1] = DbClose => j < i
    /\ \A i \in Pos(Call("loop.close")) :
         /\ config.database.enabled => Earlier(Return(DbClose), i)
         /\ config.redis.enabled => Earlier(Return(ReClose), i)
    /\ loopClosed => dbPool # "open" /\ rePool # "open"

C4_Witness ==
    /\ pc = "closed"
    /\ loopClosed
    /\ config.database.enabled /\ config.redis.enabled

(***************************************************************************)
(* C5: for a resource whose enabled flag is false, create_pool is never    *)
(* called, no pool exists, the schema bootstrap does not run (database)    *)
(* and the pool close is never called.                                     *)
(***************************************************************************)
C5_DisabledIsSkipped ==
    /\ (config.database.present /\ ~config.database.enabled) =>
          /\ Count(Call(DbCreate)) = 0
          /\ dbPool = "none"
          /\ Count(Call("create_initial_database")) = 0
          /\ bootstrap = "none" /\ conn = "none" /\ executed = << >>
          /\ Count(Call(DbClose)) = 0
    /\ (config.redis.present /\ ~config.redis.enabled) =>
          /\ Count(Call(ReCreate)) = 0
          /\ rePool = "none"
          /\ Count(Call(ReClose)) = 0

C5_Witness ==
    /\ pc = "closed"
    /\ config.database = Disabled
    /\ config.redis = Disabled

(***************************************************************************)
(* C6: each create_pool and each pool close is called at most once, a      *)
(* close is called only after that resource's create_pool returned, and    *)
(* when run_bot has returned every enabled resource was created once and   *)
(* closed once.                                                            *)
(***************************************************************************)
OnceEach(enabled, create, close, pool) ==
    /\ Count(Call(create)) <= 1
    /\ Count(Call(close)) <= 1
    /\ \A i \in Pos(Call(close)) : Earlier(Return(create), i)
    /\ (pc = "closed" /\ enabled) =>
          /\ Count(Call(create)) = 1 /\ Count(Return(create)) = 1
          /\ Count(Call(close)) = 1 /\ Count(Return(close)) = 1
          /\ pool = "closed"

C6_CreatedOnceClosedOnce ==
    /\ OnceEach(config.database.enabled, DbCreate, DbClose, dbPool)
    /\ OnceEach(config.redis.enabled, ReCreate, ReClose, rePool)

C6_Witness ==
    /\ pc = "closed"
    /\ config.database.enabled /\ config.redis.enabled
    /\ dbPool = "closed" /\ rePool = "closed"
    /\ Happened(Interrupted("bot.start"))

ExactlyOneAbsent(a) == IsNone(a.min) # IsNone(a.max)

C8_PartialRangeExits ==
    (shard.status # "pending" /\ ~IsNone(shard.given.shardcount) /\ ExactlyOneAbsent(shard.given)) =>
        /\ shard.status = "exit"
        /\ shard.exit = Some(1)
        /\ shard.critical # ""
        /\ shard.shard_ids = << >>

(***************************************************************************)
(* C9: with shardcount, min and max all present and min <= max, the        *)
(* validator returns the ascending ids min, min + 1, ..., max (max - min   *)
(* + 1 of them) and leaves shardcount, min and max as given.               *)
(***************************************************************************)
C9_InclusiveRange ==
    LET g == shard.given IN
    (/\ shard.status # "pending"
     /\ ~IsNone(g.shardcount) /\ ~IsNone(g.min) /\ ~IsNone(g.max)
     /\ Val(g.min) <= Val(g.max)) =>
        /\ shard.status = "returned"
        /\ Len(shard.shard_ids) = Val(g.max) - Val(g.min) + 1
        /\ \A i \in DOMAIN shard.shard_ids : shard.shard_ids[i] = Val(g.min) + i - 1
        /\ shard.shard_ids[Len(shard.shard_ids)] = Val(g.max)
        /\ args = g

C9_Witness ==
    /\ shard.status = "returned"
    /\ shard.given = [shardcount |-> Some(2), min |-> Some(0 - 1), max |-> Some(2)]
    /\ shard.shard_ids = <<0 - 1, 0, 1, 2>>

(***************************************************************************)
(* C10: when set_default_log_levels is given a valid global level G and    *)
(* overrides that are valid or absent, it completes and each of the four   *)
(* loggers ends at the level of its own override if it has one, else at    *)
(* the level of G.                                                         *)
(***************************************************************************)
ValidLevel(l) == ~IsNone(l) /\ ~IsNone(LoggingAttr(Upper(Val(l))))
LevelOf(l) == Val(LoggingAttr(Upper(Val(l))))
Override(a, c) ==
    CASE c = "bot" -> a.loglevel_bot
      [] c = "database" -> a.loglevel_database
      [] c = "redis" -> a.loglevel_redis
      [] c = "discord" -> a.loglevel_discord

C10_LevelLayering ==
    (/\ logres.status # "pending"
     /\ ValidLevel(logargs.loglevel)
     /\ \A c \in Channels : IsNone(Override(logargs, c)) \/ ValidLevel(Override(logargs, c))) =>
        /\ logres.status = "returned"
        /\ \A c \in Channels :
             levels[c] = IF IsNone(Override(logargs, c))
                           THEN LevelOf(logargs.loglevel)
                           ELSE LevelOf(Override(logargs, c))

C10_Witness ==
    /\ logres.status = "returned"
    /\ logargs = [loglevel |-> Some("info"), loglevel_bot |-> Some("DEBUG"),
                  loglevel_database |-> Some("WARNING"), loglevel_redis |-> None,
                  loglevel_discord |-> None]
    /\ levels = [c \in Channels |->
                   CASE c = "bot" -> DEBUG [] c = "database" -> WARNING [] OTHER -> INFO]

(***************************************************************************)
(* C11: when set_default_log_levels is given an unrecognized level name,   *)
(* as the global level or as an override, it fails with a ValueError       *)
(* naming that level and no logger's level has been changed by the call.   *)
(***************************************************************************)
Unrecognized(l) == ~IsNone(l) /\ IsNone(LoggingAttr(Upper(Val(l))))
OverrideOrder == <<"bot", "database", "redis", "discord">>
BadOverrides(a) == {k \in DOMAIN OverrideOrder : Unrecognized(Override(a, OverrideOrder[k]))}
FirstBadOverride(a) == CHOOSE k \in BadOverrides(a) : \A j \in BadOverrides(a) : k <= j
GlobalLevel(a) == IF IsNone(a.loglevel) THEN NOTSET ELSE LevelOf(a.loglevel)

\* as stated: a failing call leaves all four loggers as they were
C11_NoLoggerChanged ==
    (Unrecognized(logargs.loglevel) \/ BadOverrides(logargs) # {}) /\ logres.status # "pending" =>
        /\ logres.status = "raised"
        /\ logres.error.type = "ValueError"
        /\ levels = [c \in Channels |-> NOTSET]

\* as amended: the call fails with a ValueError naming the upper-cased level;
\* the set_log_level call that fails changes nothing, and what the calls
\* before it have set stays: nothing when the global level is the
\* unrecognized one, else the global level on all four loggers and the
\* overrides of the loggers that come before the failing one
C11_FailingCallChangesNothing ==
    logres.status # "pending" =>
        /\ logres.status = "raised" <=>
              (Unrecognized(logargs.loglevel) \/ BadOverrides(logargs) # {})
        /\ Unrecognized(logargs.loglevel) =>
              /\ logres.error = Exc("ValueError", Upper(Val(logargs.loglevel)))
              /\ levels = [c \in Channels |-> NOTSET]
        /\ (~Unrecognized(logargs.loglevel) /\ BadOverrides(logargs) # {}) =>
              LET k == FirstBadOverride(logargs) IN
              /\ logres.error =
                    Exc("ValueError", Upper(Val(Override(logargs, OverrideOrder[k]))))
              /\ \A j \in DOMAIN OverrideOrder :
                    levels[OverrideOrder[j]] =
                        IF j < k /\ ~IsNone(Override(logargs, OverrideOrder[j]))
                          THEN LevelOf(Override(logargs, OverrideOrder[j]))
                          ELSE GlobalLevel(logargs)

C11_Witness ==
    /\ logres.status = "raised"
    /\ logargs = [loglevel |-> Some("DEBUG"), loglevel_bot |-> Some("WARNING"),
                  loglevel_database |-> Some("VERBOSE"), loglevel_redis |-> Some("info"),
                  loglevel_discord |-> None]
    /\ levels = [c \in Channels |-> IF c = "bot" THEN WARNING ELSE DEBUG]

(***************************************************************************)
(* C12: with the schema file present, create_initial_database splits it on *)
(* ';', drops the fragments that are empty or all whitespace, and hands    *)
(* the others (stripped) to db(...), each once and in document order, all  *)
(* inside one bot.database() connection scope entered once and left once.  *)
(***************************************************************************)
AllWhitespace(f) == \A i \in DOMAIN f : f[i] \in Whitespace
\* the fragments of a text that hold a statement, stripped, in document order
Statements(data) ==
    LET frags == Split(data)
        keep == {i \in DOMAIN frags : ~AllWhitespace(frags[i])}
        \* the position in frags of the n-th kept fragment
        nth[n \in 1..Cardinality(keep)] ==
            CHOOSE i \in keep : Cardinality({j \in keep : j <= i}) = n
    IN [n \in 1..Cardinality(keep) |-> Strip(frags[nth[n]])]
IsPrefix(s, t) == Len(s) <= Len(t) /\ SubSeq(t, 1, Len(s)) = s

C12_StatementsInOrder ==
    /\ IsPrefix(executed, Statements(schema.data))
    /\ Count(Call("db")) = Len(executed)
    /\ Count(Call("bot.database")) <= 1
    /\ \A i \in Pos(Call("db")) : Earlier(Return("bot.database"), i)
    /\ Happened(Call("db")) => conn \in {"acquired", "released"}
    /\ pc = "db_execute" <=> conn = "acquired"
    /\ bootstrap = "True" =>
          /\ schema.present
          /\ executed = Statements(schema.data)
          /\ Count(Return("db")) = Len(executed)
          /\ Count(Call("bot.database")) = 1
          /\ conn = "released"

C12_Witness ==
    /\ bootstrap = "True"
    /\ schema.data = <<"a", ";", "b">>
    /\ executed = << <<"a">>, <<"b">> >>
    /\ conn = "released"

(***************************************************************************)
(* C13: with the schema file present but empty or all whitespace,          *)
(* create_initial_database executes no statement and returns the same      *)
(* "skipped" result (False) as for a missing file.                         *)
(***************************************************************************)
BlankSchema == schema.present /\ AllWhitespace(schema.data)

\* as stated: the result is the one of a missing file
C13_BlankIsSkipped ==
    (BlankSchema /\ Happened(Return("create_initial_database"))) =>
        /\ executed = << >>
        /\ bootstrap = "False"

\* as amended: no statement is executed and nothing is raised by the
\* statements, but the connection scope is entered and left once and the
\* result is True, the result of a file with statements; False is returned
\* for a missing file only
C13_BlankReturnsTrue ==
    /\ BlankSchema =>
          /\ executed = << >>
          /\ ~Happened(Call("db"))
          /\ bootstrap # "False"
          /\ Happened(Return("create_initial_database")) =>
                /\ bootstrap = "True"
                /\ Count(Call("bot.database")) = 1
                /\ Count(Return("bot.database")) = 1
                /\ conn = "released"
          /\ Happened(Raised("create_initial_database")) =>
                Happened(Raised("bot.database")) \/ Happened(Interrupted("bot.database"))
    /\ bootstrap = "False" <=> (~schema.present /\ Happened(Return("create_initial_database")))
    /\ bootstrap = "False" => conn = "none" /\ ~Happened(Call("bot.database"))

C13_Witness ==
    /\ schema.present
    /\ schema.data = <<" ", " ">>
    /\ bootstrap = "True"
    /\ executed = << >>
    /\ Happened(Return("start_database_pool"))

(***************************************************************************)
(* C14: when the settings sub-object of a resource is absent from the      *)
(* configuration, its starter fails with the configuration error whose     *)
(* message says that there is no settings object for that resource.        *)
(***************************************************************************)
C14_MissingSettingsError ==
    /\ (~config.database.present /\ Happened(Raised("start_database_pool"))) =>
          error = DatabasePoolError("KeyError")
    /\ (~config.redis.present /\ Happened(Raised("start_redis_pool"))) =>
          error = RedisPoolError("KeyError")

(***************************************************************************)
(* C15: in each starter the three causes of a create_pool failure (missing *)
(* settings key, connection refused, anything else) give three different   *)
(* errors, and both starters report the same cause as the same kind of     *)
(* error.                                                                  *)
(***************************************************************************)
Causes == {"KeyError", "ConnectionRefusedError", "Exception"}

C15_SameKindInBothStarters ==
    \A o \in Causes :
        /\ (Happened(Raised(DbCreate)) /\ error = DatabasePoolError(o)) =>
              /\ \A o2 \in Causes \ {o} : DatabasePoolError(o2) # error
              /\ error.type = RedisPoolError(o).type
        /\ (Happened(Raised(ReCreate)) /\ error = RedisPoolError(o)) =>
              /\ \A o2 \in Causes \ {o} : RedisPoolError(o2) # error
              /\ error.type = DatabasePoolError(o).type

(***************************************************************************)
(* C16: when a statement of the schema fails in create_initial_database,   *)
(* no later statement is executed, the connection is released, the         *)
(* exception leaves start_database_pool and run_bot, and run_bot starts    *)
(* neither the redis pool nor the extensions nor bot.start.                *)
(***************************************************************************)
StatementFailures == Pos(Raised("db")) \cup Pos(Interrupted("db"))

C16_FailedStatementAborts ==
    StatementFailures # {} =>
        /\ pc = "raised"
        /\ error # NoError
        /\ ~ENABLED RunNext
        /\ conn = "released"
        /\ Cardinality(StatementFailures) = 1
        /\ \A i \in Pos(Call("db")) : \A j \in StatementFailures : i < j
        /\ Count(Call("db")) = Count(Return("db")) + 1
        /\ Len(executed) = Count(Call("db"))
        /\ Happened(Raised("create_initial_database"))
        /\ Happened(Raised("start_database_pool"))
        /\ bootstrap = "none"
        /\ ~Happened(Call("start_redis_pool"))
        /\ ~Happened(Call(ReCreate))
        /\ ~Happened(Call("bot.load_all_extensions"))
        /\ ~Happened(Call("bot.start"))

C16_Witness ==
    /\ Happened(Raised("db"))
    /\ schema.data = <<"a", ";", "b">>
    /\ executed = << <<"a">> >>
    /\ stmts = << <<"a">>, <<"b">> >>
    /\ conn = "released"

(***************************************************************************)
(* C17: once bot.start has returned, or has been interrupted and           *)
(* bot.logout has returned, run_bot eventually finishes the teardown:      *)
(* every pool that was created is closed and the loop is closed, unless a  *)
(* close operation itself fails.                                           *)
(***************************************************************************)
RunEnded == Happened(Return("bot.start")) \/ Happened(Return("bot.logout"))
CloseFailed ==
    \/ Happened(Raised(DbClose)) \/ Happened(Interrupted(DbClose))
    \/ Happened(Raised(ReClose))
TornDown ==
    /\ pc = "closed"
    /\ loopClosed
    /\ Happened(Return(DbCreate)) => dbPool = "closed"
    /\ Happened(Return(ReCreate)) => rePool = "closed"
    /\ dbPool # "open" /\ rePool # "open"

C17_TeardownCompletes == RunEnded ~> (TornDown \/ CloseFailed)

C17_Witness ==
    /\ Happened(Return("bot.start"))
    /\ TornDown
    /\ dbPool = "closed"
    /\ config.redis = Disabled

(***************************************************************************)
(* C18: when run_bot ends with an exception from the database start, the   *)
(* schema bootstrap or the redis start, it has called no pool close and    *)
(* not loop.close; a database pool created before the failure is still     *)
(* open.                                                                   *)
(***************************************************************************)
StartupAborted ==
    Happened(Raised("start_database_pool")) \/ Happened(Raised("start_redis_pool"))

C18_NoTeardownOnAbort ==
    StartupAborted =>
        /\ pc = "raised"
        /\ ~ENABLED RunNext
        /\ ~Happened(Call(DbClose))
        /\ ~Happened(Call(ReClose))
        /\ ~Happened(Call("loop.close"))
        /\ ~loopClosed
        /\ Happened(Return(DbCreate)) <=> dbPool = "open"
        /\ rePool = "none"

C18_Witness ==
    /\ pc = "raised"
    /\ Happened(Raised("start_redis_pool"))
    /\ Happened(Raised(ReCreate))
    /\ bootstrap = "True"
    /\ dbPool = "open"
    /\ ~loopClosed

(***************************************************************************)
(* C19: once bot.start has returned or been interrupted, the enabled flag  *)
(* of each resource is true exactly when its pool was created earlier in   *)
(* the run; so the teardown, which goes by the flag, never calls close on  *)
(* a pool that does not exist and never passes over a pool that exists.    *)
(***************************************************************************)
AfterRun == Happened(Return("bot.start")) \/ Happened(Interrupted("bot.start"))

FlagTellsPool(settings, create, close, pool) ==
    /\ settings.enabled <=> Happened(Return(create))
    /\ settings.enabled <=> pool # "none"
    /\ Happened(Call(close)) => pool # "none"
    /\ pc \in {"loop_close", "closed"} => pool # "open"

C19_FlagMatchesPool ==
    AfterRun =>
        /\ FlagTellsPool(config.database, DbCreate, DbClose, dbPool)
        /\ FlagTellsPool(config.redis, ReCreate, ReClose, rePool)
        /\ error.type # "AttributeError"

C19_Witness ==
    /\ pc = "close_redis"
    /\ config.database = Enabled /\ config.redis = Disabled
    /\ dbPool = "closed" /\ rePool = "none"

(***************************************************************************)
(* C20: bot.logout is called only right after a KeyboardInterrupt in       *)
(* bot.start: not when bot.start returns, not for an interruption or       *)
(* error in the database start, the redis start or the extension loading;  *)
(* and when bot.start fails with another exception run_bot calls neither   *)
(* bot.logout nor a pool close nor loop.close.                             *)
(***************************************************************************)
StartupOps ==
    {"start_database_pool", DbCreate, "create_initial_database", "bot.database", "db",
     "start_redis_pool", ReCreate, "bot.load_all_extensions"}

C20_LogoutOnlyOnInterrupt ==
    /\ Count(Call("bot.logout")) <= 1
    /\ \A i \in Pos(Call("bot.logout")) : i > 1 /\ trace[i - 1] = Interrupted("bot.start")
    /\ Happened(Return("bot.start")) => ~Happened(Call("bot.logout"))
    /\ (\E op \in StartupOps : Happened(Raised(op)) \/ Happened(Interrupted(op))) =>
          /\ pc = "raised"
          /\ ~Happened(Call("bot.logout"))
    /\ Happened(Raised("bot.start")) =>
          /\ pc = "raised"
          /\ ~ENABLED RunNext
          /\ ~Happened(Call("bot.logout"))
          /\ ~Happened(Call(DbClose))
          /\ ~Happened(Call(ReClose))
          /\ ~Happened(Call("loop.close"))
          /\ ~loopClosed

C20_Witness ==
    /\ Happened(Raised("bot.start"))
    /\ error = Exc("Exception", "")
    /\ dbPool = "open" /\ rePool = "open"

====
